---- MODULE Spec2Model ----
(***************************************************************************)
(* Model of the CRUD API server of src/index.js: the data file, the        *)
(* request handler handleRequest and the two places where a handler        *)
(* yields to the event loop (await parseRequestBody, fs.readFile).         *)
(***************************************************************************)
EXTENDS Integers, Sequences, FiniteSets, Bags, TLC

\* Largest id a create may assign in the model (ids are unbounded in the code).
MaxId == 2
\* Largest number of handlers suspended at an await or a readFile callback.
MaxPending == 1

VARIABLES
  file,      \* items.json: whether it exists and its text
  pending,   \* bag of handlers suspended in the event loop
  resp,      \* the response sent by the last step (NoResp if it sent none)
  issued     \* history: ids returned by successful creates so far

vars == <<file, pending, resp, issued>>

-----------------------------------------------------------------------------
\* JSON values and texts

Undefined == [t |-> "undefined", s |-> ""]
JStr(s) == [t |-> "str", s |-> s]
JNumField == [t |-> "num", s |-> ""]

JNull == [t |-> "null", n |-> 0, name |-> Undefined, description |-> Undefined]
JNum(n) == [t |-> "num", n |-> n, name |-> Undefined, description |-> Undefined]
JObj(name, description) ==
  [t |-> "obj", n |-> 0, name |-> name, description |-> description]

\* JSON.stringify / JSON.parse of the item array: a text is well formed or not.
JSONstringify(items) == [wellFormed |-> TRUE, value |-> items]
Garbage == [wellFormed |-> FALSE, value |-> <<>>]
JSONparse(text) ==
  IF text.wellFormed THEN [ok |-> TRUE, value |-> text.value]
  ELSE [ok |-> FALSE, value |-> <<>>]

NoItem == [id |-> 0, name |-> "", description |-> ""]

-----------------------------------------------------------------------------
\* Persistence

NoFile == [exists |-> FALSE, text |-> Garbage]

ensureDataFile(f) ==
  IF ~f.exists THEN [exists |-> TRUE, text |-> JSONstringify(<<>>)] ELSE f

\* Mutant: text that does not parse is answered with [] but left in the file.
readItems_NoReset(f) ==
  LET f1 == ensureDataFile(f)
      parsed == JSONparse(f1.text)
  IN [items |-> parsed.value, file |-> f1]

\* The items read and the file as readItems leaves it.
readItems(f) ==
  LET f1 == ensureDataFile(f)
      parsed == JSONparse(f1.text)
  IN IF parsed.ok THEN [items |-> parsed.value, file |-> f1]
     ELSE [items |-> <<>>, file |-> [exists |-> TRUE, text |-> JSONstringify(<<>>)]]

\* Mutant: the write is dropped, the file stays as it is.
writeItems_Dropped(items) == file

writeItems(items) == [exists |-> TRUE, text |-> JSONstringify(items)]

\* Mutant: the comparison of the reducer the wrong way round.
RECURSIVE reduceMax_Flipped(_, _)
reduceMax_Flipped(items, max) ==
  IF items = <<>> THEN max
  ELSE reduceMax_Flipped(Tail(items),
                         IF Head(items).id < max THEN Head(items).id ELSE max)

\* items.reduce((max, item) => (item.id > max ? item.id : max), max)
RECURSIVE reduceMax(_, _)
reduceMax(items, max) ==
  IF items = <<>> THEN max
  ELSE reduceMax(Tail(items), IF Head(items).id > max THEN Head(items).id ELSE max)

\* Mutant: the next id taken from the number of items instead of the largest id.
getNextId_Length(items) == Len(items) + 1

getNextId(items) == reduceMax(items, 0) + 1

\* Mutant: an id that is absent yields the last position (the -1 of findIndex
\* handed on to splice or to an index without the check).
findIndex_Unchecked(items, id) ==
  IF \E i \in 1..Len(items) : items[i].id = id
  THEN CHOOSE i \in 1..Len(items) : items[i].id = id
  ELSE Len(items)

\* Array.prototype.findIndex on id, 1-based; 0 stands for -1.
findIndex(items, id) ==
  IF \E i \in 1..Len(items) : items[i].id = id
  THEN CHOOSE i \in 1..Len(items) :
         items[i].id = id /\ \A j \in 1..(i - 1) : items[j].id # id
  ELSE 0

\* Mutant: the last item is moved to position index (removal by swap).
splice_SwapRemove(items, index) ==
  [i \in 1..(Len(items) - 1) |-> IF i = index THEN items[Len(items)] ELSE items[i]]

\* Mutant: the last item is removed, whatever the index (items.pop()).
splice_Pop(items, index) == SubSeq(items, 1, Len(items) - 1)

\* items.splice(index, 1): the array without position index.
splice(items, index) ==
  [i \in 1..(Len(items) - 1) |-> IF i < index THEN items[i] ELSE items[i + 1]]

\* Mutant: the updated item is pushed instead of replacing the old one.
replaceAt_Push(items, index, item) == Append(items, item)

\* items[index] = item
replaceAt(items, index, item) == [items EXCEPT ![index] = item]

\* The collection a client would be served from the file as it stands.
Collection == IF file.exists /\ file.text.wellFormed THEN file.text.value ELSE <<>>

Ids(items) == {items[i].id : i \in 1..Len(items)}

-----------------------------------------------------------------------------
\* Requests

Digits == {"0", "1", "2", "3", "4", "5", "6", "7", "8", "9"}
DigitVal(c) ==
  CASE c = "0" -> 0 [] c = "1" -> 1 [] c = "2" -> 2 [] c = "3" -> 3 [] c = "4" -> 4
    [] c = "5" -> 5 [] c = "6" -> 6 [] c = "7" -> 7 [] c = "8" -> 8 [] c = "9" -> 9

DigitOf(n) == CHOOSE c \in Digits : DigitVal(c) = n

\* Number(idMatch[1]) for a string of decimal digits.
RECURSIVE Number(_)
Number(seg) ==
  IF seg = <<>> THEN 0
  ELSE 10 * Number(SubSeq(seg, 1, Len(seg) - 1)) + DigitVal(seg[Len(seg)])

\* pathname.match(/^\/items\/(\d+)$/)
hasId(path) ==
  /\ path.base = "/items/"
  /\ path.seg # <<>>
  /\ \A i \in 1..Len(path.seg) : path.seg[i] \in Digits

idOf(path) == IF hasId(path) THEN Number(path.seg) ELSE 0

Path(base, seg) == [base |-> base, seg |-> seg]

Root == Path("/", <<>>)
Script == Path("/script.js", <<>>)
Items == Path("/items", <<>>)
ItemsId(n) == Path("/items/", <<DigitOf(n)>>)

JsonType == "application/json"

Req(method, path, ctype) == [method |-> method, path |-> path, ctype |-> ctype]

\* The requests clients send in the model: every route, ids that exist and ids
\* that do not, an id with a leading zero, paths and methods no route matches,
\* and POST and PUT with the JSON content type, with another one and with none.
Requests ==
  {Req("GET", p, "none") :
     p \in {Root, Script, Items, Path("/other", <<>>), Path("/items/", <<"0", "1">>)}
           \cup {ItemsId(n) : n \in 1..MaxId}}
  \cup {Req("DELETE", p, "none") : p \in {Items} \cup {ItemsId(n) : n \in 0..MaxId}}
  \cup {Req("PATCH", ItemsId(1), JsonType), Req("OPTIONS", Items, "none")}
  \cup {Req("POST", Items, c) : c \in {JsonType, "text/plain", "none"}}
  \cup {Req("POST", Path("/other", <<>>), c) : c \in {JsonType, "text/plain"}}
  \cup {Req("POST", ItemsId(1), JsonType)}
  \cup {Req("PUT", ItemsId(n), JsonType) : n \in 1..MaxId}
  \cup {Req("PUT", ItemsId(1), c) : c \in {"text/plain", "none"}}
  \cup {Req("PUT", p, JsonType) : p \in {Items, Path("/items/", <<"a">>)}}

Unread == [k |-> "unread", v |-> JNull]
EmptyBody == [k |-> "empty", v |-> JNull]
Malformed == [k |-> "malformed", v |-> JNull]
JsonBody(v) == [k |-> "json", v |-> v]

\* The bodies clients send: none, text that is no JSON, the number 0, objects
\* without a name, with a name that is no string, and with a string name, with
\* and without a string description.
Bodies ==
  {EmptyBody, Malformed, JsonBody(JNum(0)),
   JsonBody(JObj(Undefined, JStr("d"))),
   JsonBody(JObj(JNumField, Undefined)),
   JsonBody(JObj(JStr("A"), JNumField)),
   JsonBody(JObj(JStr("B"), JStr("d")))}

\* What the promise of parseRequestBody settles to.
parseRequestBody(body) ==
  IF body.k = "empty" THEN [resolved |-> TRUE, value |-> JNull]
  ELSE IF body.k = "json" THEN [resolved |-> TRUE, value |-> body.v]
  ELSE [resolved |-> FALSE, value |-> JNull]

\* !body
Falsy(v) == v.t = "null" \/ (v.t = "num" /\ v.n = 0)

\* Mutant: the typeof check of name is left out.
invalidBody_NoTypeCheck(v) == Falsy(v)

\* !body || typeof body.name !== 'string'
invalidBody(v) == Falsy(v) \/ v.name.t # "str"

descriptionOf(v) == IF v.description.t = "str" THEN v.description.s ELSE ""

-----------------------------------------------------------------------------
\* Responses and suspended handlers

\* The fixed message of the name check (the code's text quotes name in backticks).
NameRequired == "Invalid request body: name is required"

NoReq == Req("none", Path("none", <<>>), "none")

NoPrior ==
  [route |-> "none", status |-> 0, req |-> NoReq, body |-> Unread, item |-> NoItem]

\* The file holds text that JSON.parse rejects.
Garbled == file.exists /\ ~file.text.wellFormed

\* The response of the step before, kept when it was a successful create,
\* update or delete of the item this request names, or when this request is a
\* POST /items and it was a GET /items that found the file garbled (history,
\* for the claims about two requests in a row).
PriorFor(req) ==
  IF \/ /\ resp.route \in {"CREATE", "UPDATE", "DELETE"}
        /\ resp.status \in {200, 201}
        /\ hasId(req.path)
        /\ idOf(req.path) = resp.item.id
     \/ /\ resp.route = "LIST" /\ resp.garbled
        /\ req.method = "POST" /\ req.path = Items
  THEN [route |-> resp.route, status |-> resp.status, req |-> resp.req,
        body |-> resp.body, item |-> resp.item]
  ELSE NoPrior

\* A response as sendJson sends it (status, and msg, item or list as its body),
\* with the request it answers and, as history, the collection the handler
\* loaded (before), the response of the step before (prior), the ids creates
\* returned earlier, whether the handler ran with no other handler suspended
\* from its first step to its last (alone), whether the file was garbled
\* when the step began, and the collection the file held when the step began
\* (over: what a write of this step replaces).
Response(route, req, body, status, msg, item, list, before, prior) ==
  [route |-> route, req |-> req, body |-> body, status |-> status, msg |-> msg,
   item |-> item, list |-> list, before |-> before, prior |-> prior,
   earlier |-> IF route = "CREATE" THEN issued ELSE {},
   alone |-> IF route \in {"CREATE", "UPDATE", "STATIC"}
             THEN resp.route = "none" /\ BagCardinality(pending) = 1
             ELSE pending = EmptyBag,
   garbled |-> Garbled, over |-> Collection]

NoResp ==
  [route |-> "none", req |-> NoReq, body |-> Unread, status |-> 0, msg |-> "",
   item |-> NoItem, list |-> <<>>, before |-> <<>>, prior |-> NoPrior, earlier |-> {},
   alone |-> TRUE, garbled |-> FALSE, over |-> <<>>]

Suspended(route, req, items, before, prior) ==
  [route |-> route, req |-> req, items |-> items, before |-> before, prior |-> prior]

Suspend(p) == pending (+) SetToBag({p})
Resume(p) == pending (-) SetToBag({p})

\* The request gets past the OPTIONS shortcut and the content-type check.
Handled(req) ==
  /\ req.method # "OPTIONS"
  /\ ~((req.method = "POST" \/ req.method = "PUT") /\ req.ctype # JsonType)

IsStatic(req) ==
  req.method = "GET" /\ req.path \in {Root, Script}
IsList(req) == req.method = "GET" /\ req.path = Items
IsGetOne(req) == req.method = "GET" /\ hasId(req.path)
IsCreate(req) == req.method = "POST" /\ req.path = Items
\* Mutant: the update route taken for every PUT, whatever the path.
IsUpdate_AnyPath(req) == req.method = "PUT"

IsUpdate(req) == req.method = "PUT" /\ hasId(req.path)
IsDelete(req) == req.method = "DELETE" /\ hasId(req.path)

-----------------------------------------------------------------------------
\* Steps of the server

Init ==
  /\ file = NoFile
  /\ pending = EmptyBag
  /\ resp = NoResp
  /\ issued = {}

\* http.createServer callback: preflight.
Options(req) ==
  /\ req.method = "OPTIONS"
  /\ resp' = Response("OPTIONS", req, Unread, 204, "", NoItem, <<>>, Collection, NoPrior)
  /\ UNCHANGED <<file, pending, issued>>

\* Mutant: the content type is checked after the items were loaded.
Unsupported_AfterRead(req) ==
  /\ req.method # "OPTIONS"
  /\ (req.method = "POST" \/ req.method = "PUT") /\ req.ctype # JsonType
  /\ file' = readItems(file).file
  /\ resp' = Response("UNSUPPORTED", req, Unread, 415,
                      "Content-Type must be application/json", NoItem, <<>>,
                      Collection, NoPrior)
  /\ UNCHANGED <<pending, issued>>

\* handleRequest: POST or PUT without the JSON content type.
Unsupported(req) ==
  /\ req.method # "OPTIONS"
  /\ (req.method = "POST" \/ req.method = "PUT") /\ req.ctype # JsonType
  /\ resp' = Response("UNSUPPORTED", req, Unread, 415,
                      "Content-Type must be application/json", NoItem, <<>>,
                      Collection, NoPrior)
  /\ UNCHANGED <<file, pending, issued>>

\* handleRequest: GET / and GET /script.js, up to the fs.readFile call.
StaticStart(req) ==
  /\ Handled(req) /\ IsStatic(req)
  /\ BagCardinality(pending) < MaxPending
  /\ file' = readItems(file).file
  /\ pending' = Suspend(Suspended("STATIC", req, <<>>, <<>>, NoPrior))
  /\ resp' = NoResp
  /\ UNCHANGED issued

\* The fs.readFile callback.
StaticDone(p, err) ==
  /\ BagIn(p, pending) /\ p.route = "STATIC"
  /\ pending' = Resume(p)
  /\ resp' = IF err
             THEN Response("STATIC", p.req, Unread, 500,
                           IF p.req.path.base = "/" THEN "Failed to load index.html"
                           ELSE "Failed to load script.js",
                           NoItem, <<>>, Collection, NoPrior)
             ELSE Response("STATIC", p.req, Unread, 200, "", NoItem, <<>>,
                           Collection, NoPrior)
  /\ UNCHANGED <<file, issued>>

\* handleRequest: GET /items.
List(req) ==
  /\ Handled(req) /\ ~IsStatic(req) /\ IsList(req)
  /\ LET r == readItems(file) IN
       /\ file' = r.file
       /\ resp' = Response("LIST", req, Unread, 200, "", NoItem, r.items,
                           Collection, NoPrior)
  /\ UNCHANGED <<pending, issued>>

\* handleRequest: GET /items/:id.
GetOne(req) ==
  /\ Handled(req) /\ ~IsStatic(req) /\ ~IsList(req) /\ IsGetOne(req)
  /\ LET r == readItems(file)
         index == findIndex(r.items, idOf(req.path))
     IN
       /\ file' = r.file
       /\ resp' = IF index = 0
                  THEN Response("GET_ONE", req, Unread, 404, "Item not found",
                                NoItem, <<>>, Collection, PriorFor(req))
                  ELSE Response("GET_ONE", req, Unread, 200, "", r.items[index],
                                <<>>, Collection, PriorFor(req))
  /\ UNCHANGED <<pending, issued>>

\* handleRequest: POST /items, up to the await of parseRequestBody.
PostStart(req) ==
  /\ Handled(req) /\ ~IsStatic(req) /\ ~IsList(req) /\ ~IsGetOne(req)
  /\ IsCreate(req)
  /\ BagCardinality(pending) < MaxPending
  /\ LET r == readItems(file) IN
       /\ getNextId(r.items) <= MaxId
       /\ file' = r.file
       /\ pending' = Suspend(Suspended("CREATE", req, r.items, Collection, PriorFor(req)))
  /\ resp' = NoResp
  /\ UNCHANGED issued

\* The item a create or an update builds from the parsed body.
itemFrom(id, v) == [id |-> id, name |-> v.name.s, description |-> descriptionOf(v)]

\* The status POST /items answers with, by the order of its checks.
postStatus(parsed) ==
  IF ~parsed.resolved THEN 400
  ELSE IF invalidBody(parsed.value) THEN 400
  ELSE 201

\* handleRequest: POST /items, from the 'end' event of the request body on.
PostBody(p, body) ==
  /\ BagIn(p, pending) /\ p.route = "CREATE"
  /\ pending' = Resume(p)
  /\ LET parsed == parseRequestBody(body)
         status == postStatus(parsed)
         newItem == itemFrom(getNextId(p.items), parsed.value)
     IN
       IF status = 201
       THEN /\ file' = writeItems(Append(p.items, newItem))
            /\ resp' = Response("CREATE", p.req, body, 201, "", newItem, <<>>,
                                p.before, p.prior)
            /\ issued' = issued \cup {newItem.id}
       ELSE /\ resp' = Response("CREATE", p.req, body, status,
                                IF parsed.resolved THEN NameRequired ELSE "Invalid JSON",
                                NoItem, <<>>, p.before, p.prior)
            /\ UNCHANGED <<file, issued>>

\* handleRequest: PUT /items/:id, up to the await of parseRequestBody.
PutStart(req) ==
  /\ Handled(req) /\ ~IsStatic(req) /\ ~IsList(req) /\ ~IsGetOne(req)
  /\ ~IsCreate(req) /\ IsUpdate(req)
  /\ BagCardinality(pending) < MaxPending
  /\ LET r == readItems(file) IN
       /\ file' = r.file
       /\ pending' = Suspend(Suspended("UPDATE", req, r.items, Collection, PriorFor(req)))
  /\ resp' = NoResp
  /\ UNCHANGED issued

\* Mutant: the body is validated before the id is looked up.
putStatus_ValidateFirst(parsed, index) ==
  IF ~parsed.resolved THEN 400
  ELSE IF invalidBody(parsed.value) THEN 400
  ELSE IF index = 0 THEN 404
  ELSE 200

\* The status PUT /items/:id answers with, by the order of its checks.
putStatus(parsed, index) ==
  IF ~parsed.resolved THEN 400
  ELSE IF index = 0 THEN 404
  ELSE IF invalidBody(parsed.value) THEN 400
  ELSE 200

\* Mutant: the update loads the collection again after the body has arrived.
PutBody_Reread(p, body) ==
  /\ BagIn(p, pending) /\ p.route = "UPDATE"
  /\ pending' = Resume(p)
  /\ LET parsed == parseRequestBody(body)
         items == readItems(file).items
         index == findIndex(items, idOf(p.req.path))
         status == putStatus(parsed, index)
         updated == itemFrom(items[index].id, parsed.value)
     IN
       IF status = 200
       THEN /\ file' = writeItems(replaceAt(items, index, updated))
            /\ resp' = Response("UPDATE", p.req, body, 200, "", updated, <<>>,
                                p.before, p.prior)
       ELSE /\ resp' = Response("UPDATE", p.req, body, status,
                                IF ~parsed.resolved THEN "Invalid JSON"
                                ELSE IF status = 404 THEN "Item not found"
                                ELSE NameRequired,
                                NoItem, <<>>, p.before, p.prior)
            /\ UNCHANGED file
  /\ UNCHANGED issued

\* handleRequest: PUT /items/:id, from the 'end' event of the request body on.
PutBody(p, body) ==
  /\ BagIn(p, pending) /\ p.route = "UPDATE"
  /\ pending' = Resume(p)
  /\ LET parsed == parseRequestBody(body)
         index == findIndex(p.items, idOf(p.req.path))
         status == putStatus(parsed, index)
         updated == itemFrom(p.items[index].id, parsed.value)
     IN
       IF status = 200
       THEN /\ file' = writeItems(replaceAt(p.items, index, updated))
            /\ resp' = Response("UPDATE", p.req, body, 200, "", updated, <<>>,
                                p.before, p.prior)
       ELSE /\ resp' = Response("UPDATE", p.req, body, status,
                                IF ~parsed.resolved THEN "Invalid JSON"
                                ELSE IF status = 404 THEN "Item not found"
                                ELSE NameRequired,
                                NoItem, <<>>, p.before, p.prior)
            /\ UNCHANGED file
  /\ UNCHANGED issued

\* Mutant: the delete works on the collection a suspended handler loaded, if
\* there is one, as if its own load had come before a wait.
Delete_Stale(req) ==
  /\ Handled(req) /\ ~IsStatic(req) /\ ~IsList(req) /\ ~IsGetOne(req)
  /\ ~IsCreate(req) /\ ~IsUpdate(req) /\ IsDelete(req)
  /\ LET r == readItems(file)
         stale == {p \in BagToSet(pending) : p.route # "STATIC"}
         items == IF stale = {} THEN r.items ELSE (CHOOSE p \in stale : TRUE).items
         index == findIndex(items, idOf(req.path))
     IN
       IF index = 0
       THEN /\ file' = r.file
            /\ resp' = Response("DELETE", req, Unread, 404, "Item not found",
                                NoItem, <<>>, Collection, NoPrior)
       ELSE /\ file' = writeItems(splice(items, index))
            /\ resp' = Response("DELETE", req, Unread, 200, "", items[index],
                                <<>>, Collection, NoPrior)
  /\ UNCHANGED <<pending, issued>>

\* handleRequest: DELETE /items/:id.
Delete(req) ==
  /\ Handled(req) /\ ~IsStatic(req) /\ ~IsList(req) /\ ~IsGetOne(req)
  /\ ~IsCreate(req) /\ ~IsUpdate(req) /\ IsDelete(req)
  /\ LET r == readItems(file)
         index == findIndex(r.items, idOf(req.path))
     IN
       IF index = 0
       THEN /\ file' = r.file
            /\ resp' = Response("DELETE", req, Unread, 404, "Item not found",
                                NoItem, <<>>, Collection, NoPrior)
       ELSE /\ file' = writeItems(splice(r.items, index))
            /\ resp' = Response("DELETE", req, Unread, 200, "", r.items[index],
                                <<>>, Collection, NoPrior)
  /\ UNCHANGED <<pending, issued>>

\* handleRequest: no route matched.
NotFound(req) ==
  /\ Handled(req) /\ ~IsStatic(req) /\ ~IsList(req) /\ ~IsGetOne(req)
  /\ ~IsCreate(req) /\ ~IsUpdate(req) /\ ~IsDelete(req)
  /\ file' = readItems(file).file
  /\ resp' = Response("NONE", req, Unread, 404, "Not found", NoItem, <<>>,
                      Collection, NoPrior)
  /\ UNCHANGED <<pending, issued>>

Arrive(req) ==
  \/ Options(req)
  \/ Unsupported(req)
  \/ StaticStart(req)
  \/ List(req)
  \/ GetOne(req)
  \/ PostStart(req)
  \/ PutStart(req)
  \/ Delete(req)
  \/ NotFound(req)

Settle(p) ==
  \/ \E err \in BOOLEAN : StaticDone(p, err)
  \/ \E body \in Bodies : PostBody(p, body)
  \/ \E body \in Bodies : PutBody(p, body)

Next ==
  \/ \E req \in Requests : Arrive(req)
  \/ \E p \in BagToSet(pending) : Settle(p)

Spec == Init /\ [][Next]_vars

\* The server is started on a data file whose text is no JSON.
InitGarbled ==
  /\ file = [exists |-> TRUE, text |-> Garbage]
  /\ pending = EmptyBag
  /\ resp = NoResp
  /\ issued = {}

\* The data file is overwritten with text that is no JSON, from outside the
\* handlers (a write cut short, an edit by hand).
Corrupt ==
  /\ ~Garbled
  /\ file' = [exists |-> TRUE, text |-> Garbage]
  /\ resp' = [NoResp EXCEPT !.route = "CORRUPT"]
  /\ UNCHANGED <<pending, issued>>

NextGarbled ==
  \/ Next
  \/ Corrupt

SpecGarbled == InitGarbled /\ [][NextGarbled]_vars

\* The file after MaxId + 1 creates named A: one item more than the requests
\* of Next can build up, so that a delete leaves two items or more behind.
Stocked == [i \in 1..(MaxId + 1) |-> itemFrom(i, JObj(JStr("A"), Undefined))]

InitStocked ==
  /\ file = writeItems(Stocked)
  /\ pending = EmptyBag
  /\ resp = NoResp
  /\ issued = 1..(MaxId + 1)

NextStocked ==
  \/ Next
  \/ Delete(Req("DELETE", ItemsId(MaxId + 1), "none"))

SpecStocked == InitStocked /\ [][NextStocked]_vars

\* A request target that new URL(req.url, base) rejects, such as "//".
BadUrl == Path("//", <<>>)

\* handleRequest throws in new URL before it sends anything. Its promise is
\* rejected and the createServer callback does not handle the rejection: the
\* request is never answered, and the runtime either only warns or ends the
\* process (its default since Node 15), taking the suspended handlers with it.
Throw(req, exits) ==
  /\ resp.route # "EXITED"
  /\ req.method # "OPTIONS"
  /\ req.path = BadUrl
  /\ resp' = [NoResp EXCEPT !.route = IF exits THEN "EXITED" ELSE "THROWN",
                            !.req = req]
  /\ pending' = IF exits THEN EmptyBag ELSE pending
  /\ UNCHANGED <<file, issued>>

\* A step of the server as long as its process lives.
Serve == resp.route # "EXITED" /\ Next

NextThrow ==
  \/ Serve
  \/ \E m \in {"GET", "POST"}, exits \in BOOLEAN : Throw(Req(m, BadUrl, JsonType), exits)

SpecThrow == Init /\ [][NextThrow]_vars

-----------------------------------------------------------------------------
\* Vocabulary of the properties

\* The body is a JSON object with a string name.
ValidBody(body) == body.k = "json" /\ body.v.t = "obj" /\ body.v.name.t = "str"

\* The body is empty, or JSON without a name or with a name that is no string.
NoName(body) == body.k = "empty" \/ (body.k = "json" /\ body.v.name.t # "str")

Created == resp.route = "CREATE" /\ resp.status = 201

ReqId == idOf(resp.req.path)

Distinct(items) ==
  \A i, j \in 1..Len(items) : i # j => items[i].id # items[j].id

\* The items whose id is not id, in their order.
Without(items, id) == SelectSeq(items, LAMBDA x : x.id # id)

\* The (method, path) of the request is none of the five operations, nor
\* OPTIONS, nor a static asset route.
Unmatched(req) ==
  /\ req.method \notin {"OPTIONS", "none"}
  /\ ~(req.method = "GET" /\ req.path \in {Root, Script, Items})
  /\ ~(req.method = "POST" /\ req.path = Items)
  /\ ~(req.method \in {"GET", "PUT", "DELETE"} /\ hasId(req.path))

-----------------------------------------------------------------------------
\* Properties

\* C1: a create with a string name answers 201 with an Item whose id is 1 + the
\* largest id of the collection before the call, or 1 if that was empty.
C1_NextId ==
  (resp.route = "CREATE" /\ ValidBody(resp.body)) =>
    /\ resp.status = 201
    /\ \A i \in 1..Len(resp.before) : resp.item.id > resp.before[i].id
    /\ \/ resp.before = <<>> /\ resp.item.id = 1
       \/ \E i \in 1..Len(resp.before) : resp.item.id = resp.before[i].id + 1

C1_Witness ==
  Created /\ Len(resp.before) = 1 /\ resp.item.id = 2 /\ resp.item.name = "B"

\* C2 as stated: the id a successful create returns is greater than every id
\* an earlier successful create returned (here for creates that overlap with
\* no other request, so that the requests form a sequence).
C2_NeverReused ==
  (Created /\ resp.alone) => \A j \in resp.earlier : resp.item.id > j

\* C2 as amended: the id a successful create returns is greater than every id
\* returned earlier whose Item is still in the collection the create loaded.
C2_NotReusedWhilePresent ==
  Created => \A j \in resp.earlier \cap Ids(resp.before) : resp.item.id > j

\* An id is returned a second time while an earlier Item is still there.
C2_Witness ==
  /\ Created /\ resp.alone
  /\ resp.item.id \in resp.earlier /\ resp.earlier \cap Ids(resp.before) # {}

\* C3: the ids of the persisted collection are pairwise distinct.
C3_UniqueIds == Distinct(Collection)

C3_Witness ==
  Len(Collection) = 2 /\ BagCardinality(pending) > 0 /\ resp.status = 200

\* C4: a GET of the id a create just returned, with no step in between,
\* answers 200 with the created Item: same id, name and description.
C4_RoundTrip ==
  (resp.route = "GET_ONE" /\ resp.prior.route = "CREATE") =>
    /\ resp.status = 200
    /\ resp.item.id = resp.prior.item.id
    /\ resp.item.name = resp.prior.body.v.name.s
    /\ resp.item.description = resp.prior.item.description

C4_Witness ==
  /\ resp.route = "GET_ONE" /\ resp.prior.route = "CREATE"
  /\ resp.item.id = 2 /\ resp.item.description = "d"

\* C5: the same valid PUT sent again right after its 200 answers with the same
\* Item and leaves the collection as the first PUT left it.
C5_UpdateIdempotent ==
  (/\ resp.route = "UPDATE" /\ resp.status = 200
   /\ resp.prior.route = "UPDATE"
   /\ resp.prior.req = resp.req /\ resp.prior.body = resp.body) =>
    /\ resp.item = resp.prior.item
    /\ Collection = resp.before

C5_Witness ==
  /\ resp.route = "UPDATE" /\ resp.status = 200
  /\ resp.prior.route = "UPDATE"
  /\ resp.prior.req = resp.req /\ resp.prior.body = resp.body
  /\ Len(Collection) = 2

\* C6: a DELETE of an id that is not in the collection answers 404 and leaves
\* the collection as it was.
C6_DeleteAbsent ==
  (resp.route = "DELETE" /\ ReqId \notin Ids(resp.before)) =>
    /\ resp.status = 404
    /\ Collection = resp.before

C6_Witness ==
  resp.route = "DELETE" /\ resp.status = 404 /\ Len(Collection) = 1

\* C7: a create whose body is empty or has no string name answers 400, and no
\* step of that request changes the persisted collection.
C7_CreateWithoutName ==
  [][/\ (resp'.route = "CREATE" /\ NoName(resp'.body)) =>
          (resp'.status = 400 /\ file' = file)
     /\ (\E p \in BagToSet(pending') :
           p.route = "CREATE" /\ CopiesIn(p, pending') > CopiesIn(p, pending)) =>
          Collection' = Collection]_vars

C7_Witness ==
  /\ resp.route = "CREATE" /\ resp.status = 400
  /\ resp.body.k = "json" /\ resp.body.v.name.t = "undefined"
  /\ Len(Collection) = 1

\* C8 as stated: a PUT with the JSON content type for an id that is not in the
\* collection answers 404 whatever its body is.
C8_AbsentIdAlways404 ==
  (resp.route = "UPDATE" /\ ReqId \notin Ids(resp.before)) => resp.status = 404

\* C8 as amended: such a PUT answers 400 when its body is not JSON and 404
\* otherwise; the 400 of the name check is given only when the id exists; no
\* failing PUT changes the collection.
C8_AbsentId ==
  [][(resp'.route = "UPDATE") =>
       /\ (idOf(resp'.req.path) \notin Ids(resp'.before)) =>
            resp'.status = (IF resp'.body.k = "malformed" THEN 400 ELSE 404)
       /\ (resp'.status = 400 /\ resp'.msg = NameRequired) =>
            idOf(resp'.req.path) \in Ids(resp'.before)
       /\ (resp'.status \in {400, 404}) => file' = file]_vars

C8_Witness ==
  /\ resp.route = "UPDATE" /\ ReqId \notin Ids(resp.before)
  /\ resp.status = 404 /\ NoName(resp.body) /\ Len(Collection) = 1

\* C9 as stated: a request no route matches answers 404 "Not found", whatever
\* its method and headers are.
C9_UnmatchedAlways404 ==
  Unmatched(resp.req) => (resp.status = 404 /\ resp.msg = "Not found")

\* C9 as amended: a request no route matches answers 404 "Not found", except
\* a POST or PUT without the JSON content type, which answers 415; the
\* collection is left as it was in both cases.
C9_Unmatched ==
  Unmatched(resp.req) =>
    /\ IF resp.req.method \in {"POST", "PUT"} /\ resp.req.ctype # JsonType
       THEN resp.status = 415
       ELSE resp.status = 404 /\ resp.msg = "Not found"
    /\ Collection = resp.before

C9_Witness ==
  /\ Unmatched(resp.req) /\ resp.req.method = "PUT" /\ resp.status = 404
  /\ Len(Collection) = 1

\* C10: a POST /items or PUT /items/:id without the JSON content type answers
\* 415 in the step it arrives in, its body unread, and that step leaves the
\* file and the suspended handlers untouched.
C10_UnsupportedFirst ==
  [][(/\ IsCreate(resp'.req) \/ IsUpdate(resp'.req)
      /\ resp'.req.ctype # JsonType) =>
       /\ resp'.status = 415
       /\ resp'.body = Unread
       /\ file' = file
       /\ pending' = pending]_vars

\* The 415 is sent while the data file does not even exist yet.
C10_Witness ==
  resp.status = 415 /\ IsUpdate(resp.req) /\ ~file.exists

\* C11: a GET /items that finds text in the file that does not parse answers
\* 200 with the empty collection and leaves the file holding the empty
\* collection; a create that arrives right after it is given id 1.
C11_SelfHeal ==
  /\ (resp.route = "LIST" /\ resp.garbled) =>
       /\ resp.status = 200 /\ resp.list = <<>>
       /\ file = [exists |-> TRUE, text |-> JSONstringify(<<>>)]
  /\ (Created /\ resp.prior.route = "LIST") => resp.item.id = 1

\* The file was garbled while it held items, a GET /items healed it and the
\* create sent next answered.
C11_Witness ==
  Created /\ resp.prior.route = "LIST" /\ resp.earlier # {} /\ resp.item.name = "A"

\* C12: a DELETE of an id that is in the collection answers 200 with the Item
\* of that id; the collection afterwards is the one before without that Item,
\* the others in their order; a GET of that id right after it answers 404.
C12_DeleteRemovesOne ==
  /\ (resp.route = "DELETE" /\ ReqId \in Ids(resp.before)) =>
       /\ resp.status = 200
       /\ resp.item.id = ReqId
       /\ \E i \in 1..Len(resp.before) : resp.before[i] = resp.item
       /\ Len(Collection) = Len(resp.before) - 1
       /\ Collection = Without(resp.before, ReqId)
  /\ (resp.route = "GET_ONE" /\ resp.prior.route = "DELETE") => resp.status = 404

\* The first of two Items is deleted.
C12_Witness ==
  /\ resp.route = "DELETE" /\ resp.status = 200
  /\ Len(resp.before) = 2 /\ resp.before[1].id = ReqId

\* C13: no request is fatal to the process, and a request whose handler has
\* run to its end has been sent a response.
C13_EveryRequestAnswered ==
  /\ resp.route # "EXITED"
  /\ resp.req # NoReq => resp.status # 0

\* C14: a create or an update that succeeds writes the collection it loaded
\* before it waited for its body, with its own change and nothing else, whatever
\* the file held when the body arrived; so when a delete succeeded in between,
\* having loaded the same collection, its effect is gone from the file.
C14_LostUpdate ==
  /\ Created => Collection = Append(resp.before, resp.item)
  /\ (resp.route = "UPDATE" /\ resp.status = 200) =>
       /\ Len(Collection) = Len(resp.before)
       /\ \A i \in 1..Len(resp.before) :
            Collection[i] = IF resp.before[i].id = ReqId THEN resp.item ELSE resp.before[i]
  /\ resp.over # resp.before =>
       /\ ~resp.alone
       /\ resp.route \in {"CREATE", "UPDATE"}

\* An update loads two items, a delete of the other item loads the same two,
\* removes one and answers 200, then the update answers 200: the file holds
\* the two items again.
C14_Witness ==
  /\ resp.route = "UPDATE" /\ resp.status = 200
  /\ Len(resp.before) = 2 /\ Len(resp.over) = 1
  /\ Len(Collection) = 2
  /\ \E id \in Ids(resp.before) :
       /\ id # ReqId
       /\ resp.over = Without(resp.before, id)
       /\ id \in Ids(Collection)

\* C15: an update that answers 200 answers with the updated item, which has
\* the id of the request and the name and description of the body; in the
\* file it stands at the place the item had in the collection the update
\* loaded, the number of items is the same and every other item is as it was.
C15_UpdateInPlace ==
  (resp.route = "UPDATE" /\ resp.status = 200) =>
    /\ ValidBody(resp.body)
    /\ resp.item = itemFrom(ReqId, resp.body.v)
    /\ Len(Collection) = Len(resp.before)
    /\ \E i \in 1..Len(resp.before) :
         /\ resp.before[i].id = ReqId
         /\ Collection = [resp.before EXCEPT ![i] = resp.item]
         /\ resp.alone => Collection = [resp.over EXCEPT ![i] = resp.item]

\* The second of two items is renamed.
C15_Witness ==
  /\ resp.route = "UPDATE" /\ resp.status = 200 /\ resp.alone
  /\ Len(resp.before) = 2
  /\ resp.before[2].id = ReqId
  /\ resp.before[2].name # resp.item.name
  /\ Collection[2] = resp.item

\* The ids of the items, in their order.
IdsInOrder(items) == [i \in 1..Len(items) |-> items[i].id]

\* C16: for a request that overlaps no other, a create leaves the items as
\* they were and puts the new one, whose id is above all of theirs, after the
\* last; an update leaves every id at its place; a delete leaves the other
\* items in their order; and GET /items lists the items in the order of the
\* file.
C16_InsertionOrder ==
  /\ (Created /\ resp.alone) =>
       /\ Collection = Append(resp.over, resp.item)
       /\ \A i \in 1..Len(resp.over) : resp.over[i].id < resp.item.id
  /\ (resp.route = "UPDATE" /\ resp.status = 200 /\ resp.alone) =>
       IdsInOrder(Collection) = IdsInOrder(resp.over)
  /\ (resp.route = "DELETE" /\ resp.status = 200 /\ resp.alone) =>
       Collection = Without(resp.over, ReqId)
  /\ (resp.route = "LIST" /\ resp.alone) =>
       /\ resp.status = 200
       /\ resp.list = Collection
       /\ resp.list = resp.over

\* The first of three items is deleted and the other two stay in their order,
\* the one that was renamed last before the other.
C16_Witness ==
  /\ resp.route = "DELETE" /\ resp.status = 200 /\ resp.alone
  /\ Len(resp.over) = 3
  /\ resp.over[1].id = ReqId
  /\ resp.over[2].name = "B"
  /\ Collection = <<resp.over[2], resp.over[3]>>

\* C17: the ids in the file are strictly increasing from the first item to the
\* last, in every state, whatever the interleaving of the requests.
C17_SortedById ==
  \A i, j \in 1..Len(Collection) : i < j => Collection[i].id < Collection[j].id

\* A create that overlapped a delete has written two items.
C17_Witness ==
  /\ Created /\ ~resp.alone
  /\ resp.over # resp.before
  /\ Len(Collection) = 2

\* C18: in the state in which a create has answered 201 the file holds the
\* created item; in which an update has answered 200, the item of that id in
\* the file is the updated one; in which a delete has answered 200, the file
\* holds no item of that id.
C18_WrittenBeforeAnswered ==
  /\ Created => \E i \in 1..Len(Collection) : Collection[i] = resp.item
  /\ (resp.route = "UPDATE" /\ resp.status = 200) =>
       /\ ReqId \in Ids(Collection)
       /\ \A i \in 1..Len(Collection) :
            Collection[i].id = ReqId => Collection[i] = resp.item
  /\ (resp.route = "DELETE" /\ resp.status = 200) => ReqId \notin Ids(Collection)

\* An update that overlapped a delete of its item has answered 200 and the
\* item is in the file again, updated.
C18_Witness ==
  /\ resp.route = "UPDATE" /\ resp.status = 200
  /\ ReqId \notin Ids(resp.over)
  /\ \E i \in 1..Len(Collection) : Collection[i] = resp.item

\* C19: GET /items, GET /items/:id and DELETE load the file, change and write
\* it in one step, so each works on what the file held when the step began and
\* a delete removes its item from exactly that, other handlers suspended or
\* not; only a create or an update writes over a collection it did not load.
C19_AtomicDelete ==
  /\ resp.route \in {"LIST", "GET_ONE", "DELETE"} => resp.before = resp.over
  /\ (resp.route \in {"LIST", "GET_ONE"} \/ (resp.route = "DELETE" /\ resp.status = 404)) =>
       Collection = resp.over
  /\ (resp.route = "DELETE" /\ resp.status = 200) =>
       Collection = Without(resp.over, ReqId)
  /\ (resp.status \in {200, 201} /\ resp.route \in {"CREATE", "UPDATE", "DELETE"}
        /\ resp.over # resp.before) =>
       /\ resp.route # "DELETE"
       /\ ~resp.alone

\* Two deletes have run while an update that loaded two items waits for its
\* body: the file holds neither item.
C19_Witness ==
  /\ resp.route = "DELETE" /\ resp.status = 200
  /\ Collection = <<>>
  /\ \E p \in BagToSet(pending) : p.route = "UPDATE" /\ Len(p.items) = 2

====
